---------------------------- MODULE Spec2Model ----------------------------
(***************************************************************************)
(* yOTP core: RFC 4648 Base32 decoding (base32.rs) and RFC 4226 / 6238     *)
(* one-time passwords (otp.rs).                                            *)
(*                                                                         *)
(* Machine integers keep their width.  TLC's integers are 32-bit signed,   *)
(* so u8 values are naturals below 256, while u32 and u64 values are bit   *)
(* vectors: functions from the bit index (0 = least significant) to 0/1.   *)
(* Characters are one-character strings, a &str is a sequence of them.     *)
(***************************************************************************)
EXTENDS Integers, Sequences, FiniteSets, TLC

VARIABLES
    \* ---- base32::decode, one call in progress
    value,      \* the argument: the input string
    pos,        \* number of characters the `for` loop has taken from `values`
    buf,        \* BytesMut: the output bytes so far
    next,       \* u8: the partially filled output byte
    i,          \* u8: bits of `next` already filled
    ret,        \* Running, or the returned Option: None / Some(buf)
    arm,        \* the arm of `match i` the last iteration took ("-" at start)
    \* ---- otp: the environment and the last calls
    clock,      \* SystemTime::now(), seconds since UNIX_EPOCH
    build,      \* "debug": overflow checks on; "release": wrapping arithmetic
    args,       \* the function called and its arguments, fixed for a run
    last,       \* the last call of hotp / totp: clock read, internals, outcome
    prev        \* the totp call before the last totp call

decVars == <<value, pos, buf, next, i, ret, arm>>
otpVars == <<clock, build, args, last, prev>>
vars == <<value, pos, buf, next, i, ret, arm, clock, build, args, last, prev>>

---------------------------------------------------------------------------
(* Bounds of the model.                                                    *)

\* a decode input starts with up to MaxFree freely chosen alphabet characters,
\* goes on with the first 0 .. MaxFill characters of Filler, and ends in a tail
MaxFree == 2
MaxFill == 16
\* the clock stays within 0 .. MaxClock
MaxClock == 60
\* seconds the clock advances in one step
ClockStep == 10

---------------------------------------------------------------------------
(* Option<T>                                                               *)

None == <<"None">>
Some(v) == <<"Some", v>>

\* a call that has not returned, and no call
Running == <<"running">>
Idle == <<"idle">>

---------------------------------------------------------------------------
(* `let x = e;`: F applied to the value of e.  TLC evaluates a LET          *)
(* definition and an operator's argument anew at each use; a bound          *)
(* variable holds a value.                                                  *)

Bind(e, F(_)) == CHOOSE r \in {F(x) : x \in {e}} : TRUE

---------------------------------------------------------------------------
(* Fixed-width unsigned integers.                                          *)

Pow2(k) == 2 ^ k

\* the bit vector of width w of a natural n < 2^31
BvOfNat(n, w) == [k \in 0 .. w - 1 |-> IF k >= 31 THEN 0 ELSE (n \div Pow2(k)) % 2]

\* the natural a bit vector's bits lo .. hi stand for (hi - lo <= 30)
RECURSIVE BvSlice(_, _, _)
BvSlice(a, lo, hi) ==
    IF hi < lo THEN 0 ELSE a[lo] + 2 * BvSlice(a, lo + 1, hi)

BvWidth(a) == Cardinality(DOMAIN a)

BvAnd(a, b) == [k \in DOMAIN a |-> a[k] * b[k]]
BvOr(a, b) == [k \in DOMAIN a |-> IF a[k] = 1 \/ b[k] = 1 THEN 1 ELSE 0]
\* `<<` and `>>` with a shift amount below the width: bits shifted out are lost
BvShl(a, s) == [k \in DOMAIN a |-> IF k >= s THEN a[k - s] ELSE 0]
BvShr(a, s) == [k \in DOMAIN a |-> IF k + s \in DOMAIN a THEN a[k + s] ELSE 0]

\* Arithmetic goes limb by limb: a bit vector of width 16 * n as its n 16-bit
\* limbs, most significant first, and back
Limbs(a) ==
    LET n == BvWidth(a) \div 16
    IN  [j \in 1 .. n |-> BvSlice(a, 16 * (n - j), 16 * (n - j) + 15)]
BvOfLimbs(l) ==
    Bind(l, LAMBDA x :
        [k \in 0 .. 16 * Len(x) - 1 |-> (x[Len(x) - (k \div 16)] \div Pow2(k % 16)) % 2])

\* a < b on limbs, from limb j on
RECURSIVE LimbsLess(_, _, _)
LimbsLess(la, lb, j) ==
    IF j > Len(la) THEN FALSE
    ELSE IF la[j] # lb[j] THEN la[j] < lb[j]
    ELSE LimbsLess(la, lb, j + 1)
BvLess(a, b) == LimbsLess(Limbs(a), Limbs(b), 1)

\* a - b modulo 2^w (wrapping_sub): limbs j .. 1, given the borrow into limb j
RECURSIVE LimbsSub(_, _, _, _)
LimbsSub(la, lb, j, borrow) ==
    IF j = 0 THEN <<>>
    ELSE LET d == la[j] - lb[j] - borrow
         IN  Append(LimbsSub(la, lb, j - 1, IF d < 0 THEN 1 ELSE 0), d % 65536)
BvSubWrap(a, b) == BvOfLimbs(LimbsSub(Limbs(a), Limbs(b), BvWidth(a) \div 16, 0))

\* long division by a natural 0 < d < 2^15: the quotient's limbs j .. n,
\* and the remainder, given the remainder rem of the limbs before j
RECURSIVE LimbsDiv(_, _, _, _)
LimbsDiv(la, d, j, rem) ==
    IF j > Len(la) THEN <<>>
    ELSE LET cur == rem * 65536 + la[j]
         IN  <<cur \div d>> \o LimbsDiv(la, d, j + 1, cur % d)
RECURSIVE LimbsMod(_, _, _, _)
LimbsMod(la, d, j, rem) ==
    IF j > Len(la) THEN rem
    ELSE LimbsMod(la, d, j + 1, (rem * 65536 + la[j]) % d)
BvDiv(a, d) == BvOfLimbs(LimbsDiv(Limbs(a), d, 1, 0))
BvMod(a, d) == LimbsMod(Limbs(a), d, 1, 0)

\* u8 operators on naturals below 256
U8Or(a, b) == BvSlice(BvOr(BvOfNat(a, 8), BvOfNat(b, 8)), 0, 7)
U8Shl(a, s) == (a * Pow2(s)) % 256
U8Shr(a, s) == a \div Pow2(s)


---------------------------------------------------------------------------
(* base32.rs                                                               *)

Lowers == <<"a", "b", "c", "d", "e", "f", "g", "h", "i", "j", "k", "l", "m",
            "n", "o", "p", "q", "r", "s", "t", "u", "v", "w", "x", "y", "z">>
Uppers == <<"A", "B", "C", "D", "E", "F", "G", "H", "I", "J", "K", "L", "M",
            "N", "O", "P", "Q", "R", "S", "T", "U", "V", "W", "X", "Y", "Z">>

\* (variant: the map over chars() left out, characters compared as given)
to_ascii_uppercase_keep(x) == x

\* char::to_ascii_uppercase: 'a'..'z' to 'A'..'Z', every other character kept
to_ascii_uppercase(x) ==
    IF \E k \in 1 .. 26 : Lowers[k] = x
    THEN Uppers[CHOOSE k \in 1 .. 26 : Lowers[k] = x]
    ELSE x

\* the arms of decode_char in order: 'A' => 0 .. 'Z' => 25, '2' => 26 .. '7' => 31
Alphabet == Uppers \o <<"2", "3", "4", "5", "6", "7">>

\* (variant: the digits numbered from '0', so that '2' => 28 .. '5' => 31 and
\* '6', '7' fall to the `_` arm)
decode_char_from_zero(v) ==
    IF \E k \in 1 .. 26 : Uppers[k] = v
    THEN Some((CHOOSE k \in 1 .. 26 : Uppers[k] = v) - 1)
    ELSE IF v \in {"2", "3", "4", "5"}
    THEN Some(CASE v = "2" -> 28 [] v = "3" -> 29 [] v = "4" -> 30 [] OTHER -> 31)
    ELSE None

\* decode_char: the 5-bit value of an alphabet character; '=' and `_` give None
decode_char(v) ==
    IF \E k \in 1 .. 32 : Alphabet[k] = v
    THEN Some((CHOOSE k \in 1 .. 32 : Alphabet[k] = v) - 1)
    ELSE None

\* (variant: arm 7 of `match i` yields 5 where the code has 4)
match_i_arm7_to_5(st, v) ==
    CASE st.i = 0 ->
           [buf |-> st.buf, next |-> U8Or(st.next, U8Shl(v, 3)), i |-> 5, arm |-> "0"]
      [] st.i = 1 ->
           [buf |-> st.buf, next |-> U8Or(st.next, U8Shl(v, 2)), i |-> 6, arm |-> "1"]
      [] st.i = 2 ->
           [buf |-> st.buf, next |-> U8Or(st.next, U8Shl(v, 1)), i |-> 7, arm |-> "2"]
      [] st.i = 3 ->
           [buf |-> Append(st.buf, U8Or(st.next, v)), next |-> 0, i |-> 0, arm |-> "3"]
      [] st.i = 4 ->
           [buf |-> Append(st.buf, U8Or(st.next, U8Shr(v, 1))),
            next |-> U8Shl(v, 7), i |-> 1, arm |-> "4"]
      [] st.i = 5 ->
           [buf |-> Append(st.buf, U8Or(st.next, U8Shr(v, 2))),
            next |-> U8Shl(v, 6), i |-> 2, arm |-> "5"]
      [] st.i = 6 ->
           [buf |-> Append(st.buf, U8Or(st.next, U8Shr(v, 3))),
            next |-> U8Shl(v, 5), i |-> 3, arm |-> "6"]
      [] st.i = 7 ->
           [buf |-> Append(st.buf, U8Or(st.next, U8Shr(v, 4))),
            next |-> U8Shl(v, 4), i |-> 5, arm |-> "7"]
      [] OTHER ->
           [buf |-> st.buf, next |-> st.next, i |-> 0, arm |-> "_"]

\* `match i { ... }` of decode with its arm's effect on next and buf:
\* st = [buf, next, i], v the 5-bit value; the result adds the arm taken
match_i(st, v) ==
    CASE st.i = 0 ->
           [buf |-> st.buf, next |-> U8Or(st.next, U8Shl(v, 3)), i |-> 5, arm |-> "0"]
      [] st.i = 1 ->
           [buf |-> st.buf, next |-> U8Or(st.next, U8Shl(v, 2)), i |-> 6, arm |-> "1"]
      [] st.i = 2 ->
           [buf |-> st.buf, next |-> U8Or(st.next, U8Shl(v, 1)), i |-> 7, arm |-> "2"]
      [] st.i = 3 ->
           [buf |-> Append(st.buf, U8Or(st.next, v)), next |-> 0, i |-> 0, arm |-> "3"]
      [] st.i = 4 ->
           [buf |-> Append(st.buf, U8Or(st.next, U8Shr(v, 1))),
            next |-> U8Shl(v, 7), i |-> 1, arm |-> "4"]
      [] st.i = 5 ->
           [buf |-> Append(st.buf, U8Or(st.next, U8Shr(v, 2))),
            next |-> U8Shl(v, 6), i |-> 2, arm |-> "5"]
      [] st.i = 6 ->
           [buf |-> Append(st.buf, U8Or(st.next, U8Shr(v, 3))),
            next |-> U8Shl(v, 5), i |-> 3, arm |-> "6"]
      [] st.i = 7 ->
           [buf |-> Append(st.buf, U8Or(st.next, U8Shr(v, 4))),
            next |-> U8Shl(v, 4), i |-> 4, arm |-> "7"]
      [] OTHER ->
           [buf |-> st.buf, next |-> st.next, i |-> 0, arm |-> "_"]

\* (variant: '=' is skipped with `continue` where the code has `break`)
loop_body_skip_padding(st, ele) ==
    IF ele = "="
    THEN [buf |-> st.buf, next |-> st.next, i |-> st.i, arm |-> "-", ctl |-> "continue"]
    ELSE LET c == decode_char(ele)
         IN  IF c = None
             THEN [buf |-> st.buf, next |-> st.next, i |-> st.i, arm |-> "-",
                   ctl |-> "return None"]
             ELSE LET m == match_i(st, c[2])
                  IN  [buf |-> m.buf, next |-> m.next, i |-> m.i, arm |-> m.arm,
                       ctl |-> "continue"]

\* one iteration of `for ele in values` (ele already uppercased by the map):
\* ctl tells how the iteration leaves the loop body
loop_body(st, ele) ==
    IF ele = "="
    THEN [buf |-> st.buf, next |-> st.next, i |-> st.i, arm |-> "-", ctl |-> "break"]
    ELSE LET c == decode_char(ele)
         IN  IF c = None
             THEN [buf |-> st.buf, next |-> st.next, i |-> st.i, arm |-> "-",
                   ctl |-> "return None"]
             ELSE LET m == match_i(st, c[2])
                  IN  [buf |-> m.buf, next |-> m.next, i |-> m.i, arm |-> m.arm,
                       ctl |-> "continue"]

\* the loop from character k of value on, as a function of the loop's state
RECURSIVE decode_from(_, _, _)
decode_from(val, k, st) ==
    IF k > Len(val) THEN Some(st.buf)
    ELSE LET r == loop_body(st, to_ascii_uppercase(val[k]))
         IN  CASE r.ctl = "break" -> Some(st.buf)
               [] r.ctl = "return None" -> None
               [] OTHER -> decode_from(val, k + 1, [buf |-> r.buf, next |-> r.next, i |-> r.i])

\* decode as a function: None, or Some(the bytes)
decode(val) == decode_from(val, 1, [buf |-> <<>>, next |-> 0, i |-> 0])

---------------------------------------------------------------------------
(* otp.rs                                                                  *)

\* u64 / u32 values
U64OfNat(n) == BvOfNat(n, 64)
U32OfNat(n) == BvOfNat(n, 32)
\* the u64 / u32 with the given 16-bit limbs, most significant limb first
U64OfLimbs(l) == BvOfLimbs(l)
U32OfLimbs(l) == BvOfLimbs(l)
\* `as u8`: the low 8 bits
AsU8(a) == BvSlice(a, 0, 7)

\* (variant: offset = i * 8, the least significant byte first)
big_endian_u64_reversed(v) ==
    [j \in 1 .. 8 |->
        LET offset == (j - 1) * 8
            mask == BvShl(U64OfNat(255), offset)
        IN  AsU8(BvShr(BvAnd(v, mask), offset))]

\* big_endian_u64: r[i] = ((v & (0xFF << offset)) >> offset) as u8 with
\* offset = (7 - i) * 8, for i in 0..8 (r[i] is element i + 1 here)
big_endian_u64(v) ==
    [j \in 1 .. 8 |->
        LET offset == (7 - (j - 1)) * 8
            mask == BvShl(U64OfNat(255), offset)
        IN  AsU8(BvShr(BvAnd(v, mask), offset))]

\* extract31's loop from iteration k on: value | (hash[offset + i] as u32) <<
\* pos_shift with pos_shift = (3 - i) * 8; an index past the slice panics
RECURSIVE extract31_loop(_, _, _, _)
extract31_loop(hash, offset, k, val) ==
    IF k = 4 THEN [panic |-> FALSE, val |-> val]
    ELSE IF offset + k >= Len(hash) THEN [panic |-> TRUE, val |-> val]
    ELSE LET pos_shift == (3 - k) * 8
         IN  extract31_loop(hash, offset, k + 1,
                 BvOr(val, BvShl(U32OfNat(hash[offset + k + 1]), pos_shift)))

\* (variant: the most significant bit kept)
extract31_unmasked(hash, offset) ==
    Bind(extract31_loop(hash, offset, 0, U32OfNat(0)), LAMBDA r :
        [panic |-> r.panic, val |-> r.val])

\* extract31: value & 0x7FFFFFFF, unless an index panicked
extract31(hash, offset) ==
    Bind(extract31_loop(hash, offset, 0, U32OfNat(0)), LAMBDA r :
        [panic |-> r.panic, val |-> BvAnd(r.val, U32OfNat(2147483647))])

\* the keys of the tests: big_endian_u64(0xdeadbeef12345678), and
\* base32::decode("7777777777777777").unwrap()
Key1 == big_endian_u64(U64OfLimbs(<<57005, 48879, 4660, 22136>>))
Key2 == decode(<<"7", "7", "7", "7", "7", "7", "7", "7",
                 "7", "7", "7", "7", "7", "7", "7", "7">>)[2]

\* rust-crypto's Hmac<Sha1>: new(Sha1::new(), key), input(msg), result().code(),
\* a 20-byte digest.  The digests of the keys and 8-byte messages the model
\* uses are tabulated (the HMAC-SHA1 values themselves); all 16 values of the
\* last byte's low nibble occur among them.
HmacSha1Table ==
  {
    [key |-> Key1, msg |-> <<0, 0, 0, 0, 0, 0, 0, 0>>,
     mac |-> <<200, 92, 104, 47, 26, 141, 59, 201, 131, 170, 169, 190, 79, 83, 122, 10, 8, 142, 225, 231>>],
    [key |-> Key1, msg |-> <<0, 0, 0, 0, 0, 0, 0, 1>>,
     mac |-> <<159, 250, 137, 30, 87, 16, 115, 135, 56, 34, 145, 80, 76, 168, 108, 239, 75, 36, 123, 53>>],
    [key |-> Key1, msg |-> <<0, 0, 0, 0, 0, 0, 0, 2>>,
     mac |-> <<10, 114, 3, 138, 178, 155, 133, 211, 223, 191, 22, 83, 189, 5, 79, 142, 98, 185, 47, 232>>],
    [key |-> Key1, msg |-> <<0, 0, 0, 0, 0, 0, 0, 3>>,
     mac |-> <<52, 248, 128, 126, 69, 207, 228, 144, 99, 133, 245, 88, 52, 110, 216, 171, 23, 208, 19, 241>>],
    [key |-> Key1, msg |-> <<0, 0, 0, 0, 0, 0, 0, 5>>,
     mac |-> <<148, 56, 8, 226, 140, 140, 7, 161, 156, 80, 169, 125, 221, 116, 89, 14, 193, 9, 234, 252>>],
    [key |-> Key1, msg |-> <<0, 0, 0, 0, 0, 0, 0, 6>>,
     mac |-> <<72, 176, 117, 61, 139, 51, 255, 191, 83, 178, 9, 63, 180, 166, 5, 64, 201, 168, 241, 106>>],
    [key |-> Key1, msg |-> <<0, 0, 0, 0, 0, 0, 0, 21>>,
     mac |-> <<115, 135, 229, 8, 239, 25, 36, 106, 234, 214, 7, 49, 108, 138, 120, 166, 43, 102, 28, 125>>],
    [key |-> Key1, msg |-> <<0, 0, 0, 0, 1, 37, 229, 145>>,
     mac |-> <<21, 254, 203, 112, 39, 40, 131, 208, 243, 3, 223, 105, 96, 146, 87, 107, 75, 89, 208, 46>>],
    [key |-> Key1, msg |-> <<1, 182, 155, 75, 172, 208, 95, 21>>,
     mac |-> <<135, 72, 204, 185, 249, 184, 117, 253, 166, 190, 94, 90, 209, 127, 117, 71, 11, 180, 23, 21>>],
    [key |-> Key1, msg |-> <<8, 136, 136, 136, 136, 136, 136, 135>>,
     mac |-> <<80, 140, 222, 240, 36, 48, 162, 237, 97, 34, 188, 51, 249, 121, 201, 106, 65, 254, 137, 42>>],
    [key |-> Key1, msg |-> <<8, 136, 136, 136, 136, 136, 136, 136>>,
     mac |-> <<58, 6, 218, 17, 83, 236, 180, 32, 146, 240, 139, 14, 47, 197, 46, 106, 60, 99, 248, 166>>],
    [key |-> Key1, msg |-> <<222, 173, 190, 239, 18, 52, 86, 120>>,
     mac |-> <<139, 54, 239, 185, 69, 93, 117, 213, 213, 180, 237, 7, 228, 128, 231, 58, 198, 163, 67, 93>>],
    [key |-> Key1, msg |-> <<255, 255, 255, 255, 255, 255, 255, 255>>,
     mac |-> <<35, 246, 38, 169, 196, 47, 206, 106, 224, 201, 107, 61, 6, 189, 160, 28, 133, 125, 173, 243>>],
    [key |-> Key2, msg |-> <<0, 0, 0, 0, 0, 0, 0, 0>>,
     mac |-> <<32, 102, 187, 203, 51, 221, 24, 97, 183, 159, 97, 44, 7, 19, 151, 125, 212, 51, 136, 60>>],
    [key |-> Key2, msg |-> <<0, 0, 0, 0, 0, 0, 0, 1>>,
     mac |-> <<164, 36, 225, 105, 170, 39, 64, 18, 102, 34, 34, 211, 170, 157, 68, 251, 175, 86, 171, 55>>],
    [key |-> Key2, msg |-> <<0, 0, 0, 0, 0, 0, 0, 2>>,
     mac |-> <<136, 85, 172, 239, 125, 212, 94, 230, 17, 72, 232, 189, 18, 229, 128, 14, 115, 98, 110, 93>>],
    [key |-> Key2, msg |-> <<0, 0, 0, 0, 0, 0, 0, 3>>,
     mac |-> <<196, 245, 223, 99, 141, 219, 194, 184, 178, 125, 207, 13, 88, 151, 12, 86, 145, 216, 162, 95>>],
    [key |-> Key2, msg |-> <<0, 0, 0, 0, 0, 0, 0, 5>>,
     mac |-> <<121, 96, 9, 36, 2, 185, 90, 247, 209, 12, 182, 89, 226, 83, 151, 132, 49, 45, 26, 223>>],
    [key |-> Key2, msg |-> <<0, 0, 0, 0, 0, 0, 0, 6>>,
     mac |-> <<33, 75, 184, 58, 180, 181, 182, 196, 242, 11, 141, 134, 188, 95, 191, 118, 98, 67, 166, 112>>],
    [key |-> Key2, msg |-> <<0, 0, 0, 0, 0, 0, 0, 21>>,
     mac |-> <<168, 4, 95, 93, 192, 50, 246, 109, 60, 118, 210, 196, 204, 144, 228, 125, 124, 44, 88, 194>>],
    [key |-> Key2, msg |-> <<0, 0, 0, 0, 1, 37, 229, 145>>,
     mac |-> <<244, 2, 35, 221, 213, 26, 99, 197, 20, 16, 83, 180, 152, 128, 152, 233, 239, 239, 174, 6>>],
    [key |-> Key2, msg |-> <<1, 182, 155, 75, 172, 208, 95, 21>>,
     mac |-> <<44, 117, 243, 89, 107, 230, 219, 94, 130, 110, 202, 3, 178, 91, 129, 169, 93, 21, 77, 40>>],
    [key |-> Key2, msg |-> <<8, 136, 136, 136, 136, 136, 136, 135>>,
     mac |-> <<12, 191, 221, 170, 78, 74, 221, 254, 24, 115, 48, 223, 159, 96, 195, 143, 128, 171, 221, 17>>],
    [key |-> Key2, msg |-> <<8, 136, 136, 136, 136, 136, 136, 136>>,
     mac |-> <<191, 106, 138, 67, 197, 198, 80, 188, 59, 172, 134, 181, 232, 4, 68, 186, 125, 71, 185, 57>>],
    [key |-> Key2, msg |-> <<222, 173, 190, 239, 18, 52, 86, 120>>,
     mac |-> <<152, 234, 176, 215, 24, 168, 199, 30, 99, 69, 182, 142, 232, 177, 189, 22, 231, 38, 46, 180>>],
    [key |-> Key2, msg |-> <<255, 255, 255, 255, 255, 255, 255, 255>>,
     mac |-> <<177, 90, 99, 245, 238, 32, 246, 187, 53, 121, 135, 184, 5, 57, 51, 42, 91, 51, 111, 43>>]
  }

\* the digest of an input the table does not hold is not modelled: 20 zero
\* bytes stand for it (HmacTabulated: no call of the model gets there)
Untabulated == [j \in 1 .. 20 |-> 0]

HmacSha1(key, msg) ==
    IF \E r \in HmacSha1Table : r.key = key /\ r.msg = msg
    THEN (CHOOSE r \in HmacSha1Table : r.key = key /\ r.msg = msg).mac
    ELSE Untabulated

\* the digit loop of hotp: n times push '0' + (hotp_num % 10), hotp_num /= 10
RECURSIVE hotp_digits(_, _)
hotp_digits(hotp_num, n) ==
    IF n = 0 THEN <<>>
    ELSE Bind(BvDiv(hotp_num, 10), LAMBDA quotient :
             <<48 + BvMod(hotp_num, 10)>> \o hotp_digits(quotient, n - 1))

\* (variant: hotp.reverse() left out)
Reverse_left_out(s) == s

\* Vec::reverse
Reverse(s) == [k \in 1 .. Len(s) |-> s[Len(s) + 1 - k]]

Panicked(why) ==
    [kind |-> "panic", why |-> why, c |-> <<0, 0, 0, 0>>, msg |-> <<>>, hash |-> <<>>,
     offset |-> 0, num |-> <<0, 0>>, code |-> <<>>]

\* (variant: only the lower bound checked)
digit_len_below_range(digit_len) == digit_len < 6

\* the condition of hotp's panic!
digit_len_out_of_range(digit_len) == digit_len < 6 \/ digit_len > 8

\* hotp: the String returned (code: its bytes), with what the call computed on
\* the way (c and num as 16-bit limbs, most significant first), or the panic
\* that ended it
hotp(key, c, digit_len) ==
    IF digit_len_out_of_range(digit_len)
    THEN Panicked("HMAC-based OTP length should be 6 to 8 digits")
    ELSE Bind(big_endian_u64(c), LAMBDA msg :
         Bind(HmacSha1(key, msg), LAMBDA hash :
         Bind(AsU8(BvAnd(BvOfNat(hash[Len(hash)], 8), BvOfNat(15, 8))), LAMBDA offset :
         Bind(extract31(hash, offset), LAMBDA hotp_num :
             IF hotp_num.panic
             THEN Panicked("index out of bounds")
             ELSE [kind |-> "ok", why |-> "", c |-> Limbs(c), msg |-> msg, hash |-> hash,
                   offset |-> offset, num |-> Limbs(hotp_num.val),
                   code |-> Reverse(hotp_digits(hotp_num.val, digit_len))]))))

\* (variant: t0 left out of the counter)
totp_without_t0(key, t0, interval, t, overflow_checks) ==
    IF interval = 0
    THEN Panicked("attempt to divide by zero")
    ELSE Bind(BvDiv(U64OfNat(t), interval), LAMBDA c :
             hotp(key, c, 6))

\* totp, with t the value SystemTime::now() gave and overflow the build's
\* overflow checks: (t - t0) / interval, then hotp(key, c, 6)
totp(key, t0, interval, t, overflow_checks) ==
    IF BvLess(U64OfNat(t), U64OfNat(t0)) /\ overflow_checks
    THEN Panicked("attempt to subtract with overflow")
    ELSE IF interval = 0
    THEN Panicked("attempt to divide by zero")
    ELSE Bind(BvSubWrap(U64OfNat(t), U64OfNat(t0)), LAMBDA elapsed :
         Bind(BvDiv(elapsed, interval), LAMBDA c :
             hotp(key, c, 6)))

\* the counters hotp is called with, as 16-bit limbs: small ones, those of the tests (19260817,
\* 123456789123456789), 0xdeadbeef12345678 and 2^64 - 1
CounterSample ==
    { <<0, 0, 0, 0>>,
      <<0, 0, 0, 1>>,
      <<0, 0, 0, 2>>,
      <<0, 0, 0, 3>>,
      <<0, 0, 0, 5>>,
      <<0, 0, 0, 6>>,
      <<0, 0, 0, 21>>,
      <<0, 0, 293, 58769>>,
      <<438, 39755, 44240, 24341>>,
      <<57005, 48879, 4660, 22136>>,
      <<65535, 65535, 65535, 65535>> }

---------------------------------------------------------------------------
(* The inputs of the model.                                                *)

\* sequences over S of length 0 .. n
RECURSIVE SeqsUpTo(_, _)
SeqsUpTo(S, n) ==
    IF n = 0 THEN {<<>>}
    ELSE LET shorter == SeqsUpTo(S, n - 1)
         IN  shorter \cup {Append(s, c) : s \in {r \in shorter : Len(r) = n - 1}, c \in S}

\* alphabet characters of values 0, 31, 10 (lower case) and 21
FreeChars == {"A", "7", "k", "V"}

\* "JBSWY3DPEHPK3PXP" and "32W353Y" of the tests, then "jbswy3dp"
Filler == <<"J", "B", "S", "W", "Y", "3", "D", "P", "E", "H", "P", "K", "3", "P", "X", "P",
            "3", "2", "W", "3", "5", "3", "Y",
            "j", "b", "s", "w", "y", "3", "d", "p">>

\* what follows the alphabet characters: nothing, padding, a character that
\* is no symbol, and text after either
Tails == { <<>>, <<"=">>, <<"=", "=", "=", "=">>, <<"=", "9", "a">>,
           <<"9", "A">>, <<"1", "=">> }

\* inputs of the tests that are not of that shape
TestInputs == { <<"3", "2", "W", "3", "5", "3", "Y", "=", "=", "=", "=">>,
                <<"3", "2", "W", "3", "9">>,
                <<"j", "b", "s", "w", "y", "3", "d", "p">>,
                <<"7", "7", "7", "7", "7", "7", "7", "7",
                  "7", "7", "7", "7", "7", "7", "7", "7">> }

Min(a, b) == IF a < b THEN a ELSE b

DecodeInputs ==
    { f \o SubSeq(Filler, 1, m) \o t :
        f \in SeqsUpTo(FreeChars, MaxFree),
        m \in 0 .. Min(MaxFill, Len(Filler)),
        t \in Tails } \cup TestInputs

Keys == {Key1, Key2}
DigitLens == 5 .. 9
T0Sample == {0, 40}
IntervalSample == {0, 30}

NoArgs ==
    [fn |-> "none", key |-> <<>>, c |-> <<0, 0, 0, 0>>, digit_len |-> 0,
     t0 |-> 0, interval |-> 0]
HotpArgs ==
    { [fn |-> "hotp", key |-> k, c |-> c, digit_len |-> n, t0 |-> 0, interval |-> 0] :
        k \in Keys, c \in CounterSample, n \in DigitLens }
TotpArgs ==
    { [fn |-> "totp", key |-> k, c |-> <<0, 0, 0, 0>>, digit_len |-> 0,
       t0 |-> t0, interval |-> iv] :
        k \in Keys, t0 \in T0Sample, iv \in IntervalSample }

NoCall == [fn |-> "none", t |-> 0, out |-> Panicked("")]

---------------------------------------------------------------------------
(* base32::decode, one loop iteration at a time.                           *)

DecodeIdle ==
    /\ value = <<>> /\ pos = 0 /\ buf = <<>> /\ next = 0 /\ i = 0
    /\ ret = Idle /\ arm = "-"
OtpIdle ==
    /\ clock = 0 /\ build = "release" /\ args = NoArgs
    /\ last = NoCall /\ prev = NoCall

\* let mut buf = BytesMut::with_capacity(0); let mut next = 0u8; let mut i = 0u8
InitDecode ==
    /\ value \in DecodeInputs
    /\ pos = 0 /\ buf = <<>> /\ next = 0 /\ i = 0
    /\ ret = Running /\ arm = "-"
    /\ OtpIdle

\* the iterator yields a character: the loop body runs on it
LoopIteration ==
    /\ ret = Running
    /\ pos < Len(value)
    /\ LET r == loop_body([buf |-> buf, next |-> next, i |-> i],
                          to_ascii_uppercase(value[pos + 1]))
       IN  /\ pos' = pos + 1
           /\ buf' = r.buf
           /\ next' = r.next
           /\ i' = r.i
           /\ arm' = r.arm
           /\ ret' = CASE r.ctl = "break" -> Some(buf)
                       [] r.ctl = "return None" -> None
                       [] OTHER -> Running
    /\ UNCHANGED <<value, clock, build, args, last, prev>>

\* the iterator is exhausted: Some(buf)
LoopEnd ==
    /\ ret = Running
    /\ pos = Len(value)
    /\ ret' = Some(buf)
    /\ UNCHANGED <<value, pos, buf, next, i, arm, clock, build, args, last, prev>>

NextDecode == LoopIteration \/ LoopEnd

SpecDecode == InitDecode /\ [][NextDecode]_vars

---------------------------------------------------------------------------
(* hotp and totp called with the run's arguments while the clock advances. *)

Init ==
    /\ DecodeIdle
    /\ clock = 0
    /\ build \in {"debug", "release"}
    /\ args \in HotpArgs \cup TotpArgs
    /\ last = NoCall
    /\ prev = NoCall

\* a panic has ended the thread
Halted == last.out.kind = "panic" /\ last.fn # "none"

CallHotp ==
    /\ args.fn = "hotp"
    /\ ~Halted
    /\ last' = [fn |-> "hotp", t |-> clock,
                out |-> hotp(args.key, U64OfLimbs(args.c), args.digit_len)]
    /\ UNCHANGED <<clock, build, args, prev>>
    /\ UNCHANGED decVars

\* let t = SystemTime::now()...as_secs(): the call reads the clock
CallTotp ==
    /\ args.fn = "totp"
    /\ ~Halted
    /\ last' = [fn |-> "totp", t |-> clock,
                out |-> totp(args.key, args.t0, args.interval, clock, build = "debug")]
    /\ prev' = last
    /\ UNCHANGED <<clock, build, args>>
    /\ UNCHANGED decVars

\* the system clock advances
Tick ==
    /\ clock + ClockStep <= MaxClock
    /\ clock' = clock + ClockStep
    /\ UNCHANGED <<build, args, last, prev>>
    /\ UNCHANGED decVars

Next == CallHotp \/ CallTotp \/ Tick

Spec == Init /\ [][Next]_vars

---------------------------------------------------------------------------
(* RFC 4648 as the base32 properties read it, stated without the decoder.  *)

Rfc4648Upper == <<"A", "B", "C", "D", "E", "F", "G", "H", "I", "J", "K", "L", "M",
                  "N", "O", "P", "Q", "R", "S", "T", "U", "V", "W", "X", "Y", "Z",
                  "2", "3", "4", "5", "6", "7">>
Rfc4648Lower == <<"a", "b", "c", "d", "e", "f", "g", "h", "i", "j", "k", "l", "m",
                  "n", "o", "p", "q", "r", "s", "t", "u", "v", "w", "x", "y", "z",
                  "2", "3", "4", "5", "6", "7">>

IsSymbol(ch) == \E k \in 1 .. 32 : Rfc4648Upper[k] = ch \/ Rfc4648Lower[k] = ch
SymbolValue(ch) ==
    (CHOOSE k \in 1 .. 32 : Rfc4648Upper[k] = ch \/ Rfc4648Lower[k] = ch) - 1

\* the characters before the first '=' (all of them when there is none)
BeforePadding(val) ==
    IF \E k \in 1 .. Len(val) : val[k] = "="
    THEN SubSeq(val, 1, (CHOOSE k \in 1 .. Len(val) :
                            val[k] = "=" /\ \A j \in 1 .. k - 1 : val[j] # "=") - 1)
    ELSE val

AllSymbols(val) == \A k \in 1 .. Len(val) : IsSymbol(val[k])

\* bit b (0 = first) of the 5-bit values of syms, each most significant bit first
SymbolBit(syms, b) == (SymbolValue(syms[(b \div 5) + 1]) \div Pow2(4 - (b % 5))) % 2

\* octet j (1 = first) of that bit string
Octet(syms, j) ==
    LET b == 8 * (j - 1)
    IN  128 * SymbolBit(syms, b) + 64 * SymbolBit(syms, b + 1)
        + 32 * SymbolBit(syms, b + 2) + 16 * SymbolBit(syms, b + 3)
        + 8 * SymbolBit(syms, b + 4) + 4 * SymbolBit(syms, b + 5)
        + 2 * SymbolBit(syms, b + 6) + SymbolBit(syms, b + 7)

Octets(syms) == [j \in 1 .. (5 * Len(syms)) \div 8 |-> Octet(syms, j)]

\* a letter in its other case, every other character as it is
SwapCase(ch) ==
    IF \E k \in 1 .. 26 : Rfc4648Lower[k] = ch
    THEN Rfc4648Upper[CHOOSE k \in 1 .. 26 : Rfc4648Lower[k] = ch]
    ELSE IF \E k \in 1 .. 26 : Rfc4648Upper[k] = ch
    THEN Rfc4648Lower[CHOOSE k \in 1 .. 26 : Rfc4648Upper[k] = ch]
    ELSE ch
SwapCaseAll(val) == [k \in 1 .. Len(val) |-> SwapCase(val[k])]

Returned == ret # Running /\ ret # Idle

\* symbols the loop has merged so far: the characters taken, less the one
\* that ended the loop
SymbolsMerged ==
    IF pos > 0 /\ ~IsSymbol(value[pos]) THEN pos - 1 ELSE pos

---------------------------------------------------------------------------
(* Properties of base32::decode, checked under SpecDecode.                 *)

\* C1: when every character before the first '=' is an alphabet character,
\* decode returns Some of exactly floor(5n/8) bytes, the leading octets of the
\* symbols' 5-bit values laid out most significant bit first; the 5n mod 8
\* bits left over give no byte.
C1_DecodeIsBitString ==
    (Returned /\ AllSymbols(BeforePadding(value))) =>
        /\ ret = Some(Octets(BeforePadding(value)))
        /\ Len(ret[2]) = (5 * Len(BeforePadding(value))) \div 8

\* C1 happens: "32W353Y====" gives DE AD BE EF, 3 bits left over
C1_Witness ==
    /\ value = <<"3", "2", "W", "3", "5", "3", "Y", "=", "=", "=", "=">>
    /\ ret = Some(<<222, 173, 190, 239>>)

\* C2: decode returns None exactly when a character before the first '=' is
\* no alphabet character; what follows the first '=' is never looked at, so
\* the input with '=' and any text appended decodes as the input itself.
C2_NoneIffBadSymbol ==
    Returned =>
        /\ (ret = None) <=> ~AllSymbols(BeforePadding(value))
        /\ \A t \in Tails : decode(value \o <<"=">> \o t) = ret
        /\ decode(BeforePadding(value)) = ret

\* C2 happens: a character that is no symbol follows '=' and bytes come back
C2_Witness ==
    /\ Returned
    /\ ret # None
    /\ Len(ret[2]) > 0
    /\ \E k \in 1 .. Len(value) - 1 : value[k] = "=" /\ value[k + 1] = "9"

\* C7: decode is case-insensitive: the input with every letter in its other
\* case gives the same outcome.
C7_CaseInsensitive ==
    Returned => decode(SwapCaseAll(value)) = ret

\* C7 happens: "jbswy3dp" decodes to "Hello"
C7_Witness ==
    /\ value = <<"j", "b", "s", "w", "y", "3", "d", "p">>
    /\ ret = Some(<<72, 101, 108, 108, 111>>)

\* C9: between input symbols the fill count i is (5k) mod 8 < 8 for k symbols
\* merged, floor(5k/8) bytes are out, after every 8 symbols i is 0 with 5 bytes
\* per 8 symbols out and no pending bits, and the `_` arm is never taken.
C9_FillCountCycle ==
    LET k == SymbolsMerged
    IN  /\ i \in 0 .. 7
        /\ i = (5 * k) % 8
        /\ Len(buf) = (5 * k) \div 8
        /\ (k % 8 = 0) => (i = 0 /\ next = 0 /\ Len(buf) = 5 * (k \div 8))
        /\ arm # "_"

\* C9 happens: the 16th symbol has just closed the second group of 5 bytes
C9_Witness ==
    /\ ret = Running
    /\ pos = 16
    /\ arm = "3"
    /\ i = 0
    /\ Len(buf) = 10

---------------------------------------------------------------------------
(* Properties of hotp and totp, checked under Spec.                        *)

Called == last.fn # "none"
ReturnedCode == Called /\ last.out.kind = "ok"

\* every digest a call of the model used is one of the table
HmacTabulated ==
    ReturnedCode =>
        \E r \in HmacSha1Table :
            r.key = args.key /\ r.msg = last.out.msg /\ r.mac = last.out.hash

\* the digit length of the code the last call asked hotp for
DigitLen == IF last.fn = "hotp" THEN args.digit_len ELSE 6

\* the 31-bit number P of the last call
P == BvSlice(U32OfLimbs(last.out.num), 0, 30)

\* character j (1 = first) of P mod 10^n written with n digits, zeros in front
DecimalDigit(n, j) == 48 + (((P % (10 ^ n)) \div (10 ^ (n - j))) % 10)

\* the last n characters of a string
LastChars(str, n) == SubSeq(str, Len(str) - n + 1, Len(str))

\* C3 as the code has it: a digit length outside 6 .. 8 makes hotp panic: the
\* call yields no code of any length and the thread ends.
C3_BadDigitLenPanics ==
    (last.fn = "hotp" /\ args.digit_len \notin {6, 7, 8}) =>
        /\ last.out.kind = "panic"
        /\ last.out.code = <<>>
        /\ Halted
        /\ ~ENABLED CallHotp

\* C3 happens: hotp was called for 9 digits
C3_Witness ==
    /\ last.fn = "hotp"
    /\ args.digit_len = 9
    /\ last.out.kind = "panic"

\* C3 as stated: a digit length outside 6 .. 8 comes back to the caller as an
\* InvalidParameter result, never as a panic.
C3_AsStated ==
    (last.fn = "hotp" /\ args.digit_len \notin {6, 7, 8}) =>
        last.out.kind = "InvalidParameter"

\* C4 as stated, for the current time before t0 in a build without overflow
\* checks: totp fails with an invalid-parameter result, and no code comes
\* from a wrapped now - t0.
C4_AsStated ==
    (last.fn = "totp" /\ last.t < args.t0 /\ args.interval > 0 /\ build = "release") =>
        /\ last.out.kind = "InvalidParameter"
        /\ last.out.code = <<>>

\* C5: for a digit length n in 6 .. 8 the code is exactly n decimal digits, those
\* of P mod 10^n with zeros in front; the 6-digit code is the end of the
\* 7-digit code, which is the end of the 8-digit code, for the same key and
\* counter.
C5_CodeIsPModPow10 ==
    ReturnedCode =>
        /\ DigitLen \in {6, 7, 8}
        /\ Len(last.out.code) = DigitLen
        /\ \A j \in 1 .. DigitLen :
              /\ last.out.code[j] \in 48 .. 57
              /\ last.out.code[j] = DecimalDigit(DigitLen, j)
        /\ LET code6 == hotp(args.key, U64OfLimbs(last.out.c), 6).code
               code7 == hotp(args.key, U64OfLimbs(last.out.c), 7).code
               code8 == hotp(args.key, U64OfLimbs(last.out.c), 8).code
           IN  /\ code6 = LastChars(code7, 6)
               /\ code7 = LastChars(code8, 7)
               /\ last.out.code = LastChars(code8, DigitLen)

\* C5 happens: an 8-digit code with zeros in front, "00723150"
C5_Witness ==
    /\ last.fn = "hotp"
    /\ args.digit_len = 8
    /\ last.out.kind = "ok"
    /\ last.out.code = <<48, 48, 55, 50, 51, 49, 53, 48>>

\* the counter (t - t0) / interval in u64 arithmetic, without the subtraction:
\* for t < t0 the wrapped difference 2^64 - (t0 - t) is the complement of
\* t0 - t - 1
BvNot(a) == [k \in DOMAIN a |-> 1 - a[k]]
CounterAt(t, t0, interval) ==
    IF t >= t0
    THEN U64OfNat((t - t0) \div interval)
    ELSE BvDiv(BvNot(U64OfNat(t0 - t - 1)), interval)

\* C6 as the code has it: totp reads the clock itself, and its outcome is a
\* function of key, t0, interval and the time t it read: where it returns, the
\* code is hotp(key, ((t - t0) mod 2^64) div interval, 6), the counter being
\* floor((t - t0) / interval) when t >= t0; with t0 = 0 and interval = 30 two
\* calls that read times of the same 30-second window return the same code.
C6_TotpFollowsClock ==
    (last.fn = "totp") =>
        /\ (last.t < args.t0 /\ build = "debug") => last.out.kind = "panic"
        /\ (args.interval = 0) => last.out.kind = "panic"
        /\ (args.interval > 0 /\ (last.t >= args.t0 \/ build = "release")) =>
              /\ last.out.kind = "ok"
              /\ last.out = hotp(args.key, CounterAt(last.t, args.t0, args.interval), 6)
        /\ (prev.fn = "totp" /\ prev.t = last.t) => prev.out = last.out
        /\ (prev.fn = "totp" /\ args.t0 = 0 /\ args.interval = 30
              /\ prev.t \div 30 = last.t \div 30) =>
              /\ last.out.kind = "ok"
              /\ prev.out.code = last.out.code

\* C6 happens: two calls in one window, at 0 s and at 20 s
C6_Witness ==
    /\ prev.fn = "totp" /\ last.fn = "totp"
    /\ args.t0 = 0 /\ args.interval = 30
    /\ prev.t = 0 /\ last.t = 20
    /\ last.out.kind = "ok"
    /\ prev.out.code = last.out.code

\* C6 as stated, where the counter is defined (interval > 0, no time before
\* t0): totp is a function of its arguments and reads no time itself, so two
\* calls with the same arguments return the same.
C6_AsStated ==
    (prev.fn = "totp" /\ last.fn = "totp" /\ args.interval > 0
        /\ prev.t >= args.t0 /\ last.t >= args.t0) =>
        prev.out = last.out

\* C8: the offset is the low nibble of the digest's last byte, 0 .. 15, the
\* bytes at offset .. offset + 3 lie within the first 19 of the 20, no read
\* leaves the digest, and P is their big-endian value with the top bit
\* cleared, 0 <= P < 2^31.
C8_DynamicTruncation ==
    /\ last.out.why # "index out of bounds"
    /\ ReturnedCode =>
          LET hash == last.out.hash
              offset == last.out.offset
          IN  /\ Len(hash) = 20
              /\ offset = hash[20] % 16
              /\ offset \in 0 .. 15
              /\ \A k \in 0 .. 3 : offset + k <= 18
              /\ U32OfLimbs(last.out.num)[31] = 0
              /\ P = (hash[offset + 1] % 128) * 16777216 + hash[offset + 2] * 65536
                       + hash[offset + 3] * 256 + hash[offset + 4]
              /\ P >= 0 /\ P <= 2147483647

\* C8 happens: offset 15, the last window, with the top bit of its first byte set
C8_Witness ==
    /\ ReturnedCode
    /\ last.out.offset = 15
    /\ last.out.hash[16] >= 128

\* C10: the counter goes to the HMAC as 8 bytes, byte i being
\* (v >> (8 * (7 - i))) & 0xFF, and the bytes give back every bit of v.
C10_CounterBigEndian ==
    /\ (ReturnedCode /\ last.fn = "hotp") => last.out.c = args.c
    /\ ReturnedCode =>
          LET v == U64OfLimbs(last.out.c)
              msg == last.out.msg
          IN  /\ Len(msg) = 8
              /\ \A idx \in 0 .. 7 :
                    msg[idx + 1] = BvSlice(BvShr(v, 8 * (7 - idx)), 0, 7)
              /\ \A k \in 0 .. 63 :
                    v[k] = (msg[8 - (k \div 8)] \div Pow2(k % 8)) % 2

\* C10 happens: 0xdeadbeef12345678 went in as DE AD BE EF 12 34 56 78
C10_Witness ==
    /\ last.fn = "hotp"
    /\ args.c = <<57005, 48879, 4660, 22136>>
    /\ last.out.msg = <<222, 173, 190, 239, 18, 52, 86, 120>>

============================================================================
